---------------------------- MODULE Spec2Model ----------------------------
(***************************************************************************)
(* h5scripting: saving the source of a Python function into a dataset of   *)
(* an HDF5 file (attached_function / attach_function), reading it back     *)
(* (get_saved_function / get_all_saved_functions) and calling it in a      *)
(* private namespace (SavedFunction.__call__ / custom_call), next to the   *)
(* plain-data helpers add_data / get_data.                                  *)
(*                                                                         *)
(* Python values are pairs <<type, text>>; a text attribute is a sequence  *)
(* (or a mapping) of literal tokens; a source line is a sequence of        *)
(* tokens, the leading ones being spaces.  An exception is the name of its *)
(* class, "none" meaning that the call returned.                           *)
(***************************************************************************)
EXTENDS Integers, Sequences, FiniteSets, TLC

VARIABLES
    store,   \* the HDF5 files on disk, by absolute path
    sf,      \* the SavedFunction the caller holds (the last one built)
    scope,   \* the names the calling module defines
    nwrites, \* how many writing operations have run
    last     \* the last operation: its inputs and what it did

vars == <<store, sf, scope, nwrites, last>>

-----------------------------------------------------------------------------
(* Bounds of the model *)

MaxWrites == 2

-----------------------------------------------------------------------------
(* Python values *)

None == <<"NoneType", "None">>
True == <<"bool", "True">>
Int1 == <<"int", "1">>
StrA == <<"str", "a">>
StrB == <<"str", "b">>
EmptyList == <<"list", "">>
List1 == <<"list", "1">>
\* an instance of a class with the default repr, <C object at 0x...>
Obj == <<"object", "C">>
\* an instance of a class whose repr is '1' and that equals nothing else
Fake1 == <<"fake", "1">>
\* float('nan'), whose repr is the name nan
NaN == <<"float", "nan">>

\* repr() of one value
ReprValue(v) ==
    CASE v[1] = "NoneType" -> "None"
      [] v[1] = "bool" -> v[2]
      [] v[1] = "int" -> v[2]
      [] v = StrA -> "'a'"
      [] v = StrB -> "'b'"
      [] v = EmptyList -> "[]"
      [] v = List1 -> "[1]"
      [] v[1] = "fake" -> v[2]
      [] v[1] = "float" -> v[2]
      [] OTHER -> "<C object at 0x7f>"

\* what ast.literal_eval makes of one token: a value, or the exception raised
EvalToken(t) ==
    CASE t = "None" -> [err |-> "none", val |-> None]
      [] t = "True" -> [err |-> "none", val |-> True]
      [] t = "1" -> [err |-> "none", val |-> Int1]
      [] t = "'a'" -> [err |-> "none", val |-> StrA]
      [] t = "'b'" -> [err |-> "none", val |-> StrB]
      [] t = "[]" -> [err |-> "none", val |-> EmptyList]
      [] t = "[1]" -> [err |-> "none", val |-> List1]
      [] t = "nan" -> [err |-> "ValueError", val |-> None]
      [] OTHER -> [err |-> "SyntaxError", val |-> None]

\* repr() of a list of values, or of a dict with string keys
Repr(x) == [i \in DOMAIN x |-> ReprValue(x[i])]

\* ast.literal_eval of such a text: the first exception met, or the container
LiteralEval(text) ==
    LET bad == {i \in DOMAIN text : EvalToken(text[i]).err # "none"}
        syn == {i \in bad : EvalToken(text[i]).err = "SyntaxError"}
    IN  IF bad = {}
        THEN [err |-> "none", val |-> [i \in DOMAIN text |-> EvalToken(text[i]).val]]
        ELSE [err |-> IF syn # {} THEN "SyntaxError" ELSE "ValueError", val |-> <<>>]

\* mutant of Update: the stored value wins over the caller's
UpdateKeepingStored(d, k) ==
    [x \in DOMAIN d \cup DOMAIN k |-> IF x \in DOMAIN d THEN d[x] ELSE k[x]]

\* d.copy(); d.update(k)
Update(d, k) ==
    [x \in DOMAIN d \cup DOMAIN k |-> IF x \in DOMAIN k THEN k[x] ELSE d[x]]

-----------------------------------------------------------------------------
(* Source text *)

SP == <<"sp", "">>

\* len(line) - len(line.lstrip(' '))
RECURSIVE LeadingSpaces(_)
LeadingSpaces(line) ==
    IF line = <<>> \/ line[1] # SP THEN 0
    ELSE 1 + LeadingSpaces(Tail(line))

\* line[n:]
Cut(line, n) == SubSeq(line, n + 1, Len(line))

SetMin(S) == CHOOSE m \in S : \A n \in S : m <= n

\* attached_function.__call__, the lines between getsource and the file
Normalize(function_lines) ==
    LET indentation ==
            SetMin({LeadingSpaces(function_lines[i]) : i \in DOMAIN function_lines})
        first == Cut(function_lines[1], indentation)
        kept == IF first # <<>> /\ first[1][1] = "at"
                THEN Tail(function_lines)
                ELSE function_lines
    IN  [i \in DOMAIN kept |-> Cut(kept[i], indentation)]

-----------------------------------------------------------------------------
(* The functions the caller captures.  Every one is declared                 *)
(* def name(h5_filename, *args, **kwargs); a body statement reads a name,    *)
(* asks whether a global name is bound, binds a global name, changes its     *)
(* first stored argument in place, or returns.                               *)

AT == <<"at", "attached_function">>
DefLine(n) == <<"def", n>>
Params == {"h5_filename", "args", "kwargs"}
Builtins == {"len", "globals"}
Signature == "(h5_filename, *args, **kwargs)"

\* decorated at module level; reads a parameter and a built-in
PlotFunc ==
    [name |-> "plot_func", doc |-> <<"Plots the example data.">>,
     lines |-> << <<AT>>, <<DefLine("plot_func")>>,
                  <<SP, SP, <<"read", "args">>>>,
                  <<SP, SP, <<"read", "len">>>>,
                  <<SP, SP, <<"ret", "True">>>> >>]

\* defined inside another block, passed to attach_function; reads the
\* global name x of the module that defines it
ReadsX ==
    [name |-> "g", doc |-> <<>>,
     lines |-> << <<SP, SP, DefLine("g")>>,
                  <<SP, SP, SP, SP, <<"read", "x">>>>,
                  <<SP, SP, SP, SP, <<"ret", "True">>>> >>]

\* decorated inside another block; calls itself
Recursive ==
    [name |-> "g", doc |-> <<>>,
     lines |-> << <<SP, SP, AT>>, <<SP, SP, DefLine("g")>>,
                  <<SP, SP, SP, SP, <<"read", "g">>>>,
                  <<SP, SP, SP, SP, <<"ret", "True">>>> >>]

\* seen = 'n' in globals(); global n; n = 1; args[0][:] = [1]; return seen
Stateful ==
    [name |-> "plot_func", doc |-> <<>>,
     lines |-> << <<DefLine("plot_func")>>,
                  <<SP, SP, <<"probe", "n">>>>,
                  <<SP, SP, <<"bind", "n">>>>,
                  <<SP, SP, <<"mut", "args">>>> >>]

Functions == {PlotFunc, ReadsX, Recursive, Stateful}

-----------------------------------------------------------------------------
(* The files.  A file name is a sequence of path components; a relative      *)
(* one is resolved against the working directory.                            *)

Cwd == <<"/", "w">>
Files == {<<"test.h5">>}
Groups == {"saved_functions", "data"}

\* os.path.abspath
Abspath(fn) == IF fn[1] = "/" THEN fn ELSE Cwd \o fn

AbsFiles == {Abspath(fn) : fn \in Files}

NoFile == [exists |-> FALSE, groups |-> <<>>]
NoGroup == [attrs |-> <<>>, slots |-> <<>>]

\* a mapping without key k, and with k bound to v
Without(m, k) == [x \in DOMAIN m \ {k} |-> m[x]]
With(m, k, v) == [x \in DOMAIN m \cup {k} |-> IF x = k THEN v ELSE m[x]]

\* h5py.File(filename): append mode, the file is created when absent
OpenAppend(st, fn) == [exists |-> TRUE, groups |-> st[Abspath(fn)].groups]

\* mutant of RequireGroup: the group is created anew
RequireGroupAnew(groups, g) == With(groups, g, NoGroup)

\* f.require_group(groupname)
RequireGroup(groups, g) ==
    IF g \in DOMAIN groups THEN groups ELSE With(groups, g, NoGroup)

HasGroup(st, fn, g) ==
    st[Abspath(fn)].exists /\ g \in DOMAIN st[Abspath(fn)].groups

HasSlot(st, fn, g, s) ==
    HasGroup(st, fn, g) /\ s \in DOMAIN st[Abspath(fn)].groups[g].slots

SlotAt(st, fn, g, s) == st[Abspath(fn)].groups[g].slots[s]

\* '__h5scripting_function' in dataset.attrs and dataset.attrs[...]
IsFunction(dataset) ==
    "__h5scripting_function" \in DOMAIN dataset.attrs
        /\ dataset.attrs["__h5scripting_function"]

\* '__h5scripting_data' in dataset.attrs and dataset.attrs[...]
IsData(dataset) ==
    "__h5scripting_data" \in DOMAIN dataset.attrs
        /\ dataset.attrs["__h5scripting_data"]

-----------------------------------------------------------------------------
(* SavedFunction *)

\* the statement a body line holds, after its indentation
Statement(line) == Cut(line, LeadingSpaces(line))[1]

\* exec_in_namespace(function_source, {}): the names the namespace holds
\* afterwards (exec adds __builtins__), or the exception raised.  An indented first line does not compile;
\* a decorator left on the source names something the empty namespace lacks.
ExecSource(function_source) ==
    LET first == function_source[1][1]
    IN  CASE first = SP ->
               [err |-> "IndentationError", ns |-> <<>>]
          [] first[1] = "at" ->
               [err |-> "NameError", ns |-> <<>>]
          [] OTHER ->
               [err |-> "none",
                ns |-> (first[2] :>
                          [name |-> first[2],
                           body |-> [i \in 1..(Len(function_source) - 1) |->
                                        Statement(function_source[i + 1])]])
                       @@ ("__builtins__" :> <<"module", "builtins">>)]

\* the attributes SavedFunction.__init__ reads
FunctionAttrs ==
    {"function_name", "function_docstring", "function_signature",
     "function_args", "function_kwargs"}

NoSF ==
    [built |-> FALSE, function |-> <<>>, ns |-> <<>>,
     function_docstring |-> <<>>, function_signature |-> <<>>,
     function_source |-> <<>>, function_name |-> "",
     function_args |-> <<>>, function_kwargs |-> <<>>, h5_filename |-> <<>>]

\* SavedFunction.__init__(dataset), the dataset being in the file opened as fn
Build(dataset, fn) ==
    LET a == LiteralEval(dataset.attrs["function_args"])
        k == LiteralEval(dataset.attrs["function_kwargs"])
        x == ExecSource(dataset.payload)
        function_name == dataset.attrs["function_name"]
    IN  CASE ~(FunctionAttrs \subseteq DOMAIN dataset.attrs) ->
               [err |-> "KeyError", sf |-> NoSF]
          [] a.err # "none" -> [err |-> a.err, sf |-> NoSF]
          [] k.err # "none" -> [err |-> k.err, sf |-> NoSF]
          [] x.err # "none" -> [err |-> x.err, sf |-> NoSF]
          [] function_name \notin DOMAIN x.ns -> [err |-> "KeyError", sf |-> NoSF]
          [] OTHER ->
               [err |-> "none",
                sf |-> [built |-> TRUE,
                        function |-> x.ns[function_name],
                        ns |-> x.ns,
                        function_docstring |-> dataset.attrs["function_docstring"],
                        function_signature |-> dataset.attrs["function_signature"],
                        function_source |-> dataset.payload,
                        function_name |-> function_name,
                        function_args |-> a.val,
                        function_kwargs |-> k.val,
                        h5_filename |-> Abspath(fn)]]

\* mutant of Resolves: the names of the calling module are visible too
ResolvesInCaller(ns, n) ==
    n \in Params \/ n \in DOMAIN ns \/ n \in Builtins \/ n \in scope

\* whether the running function can read name n: its parameters, then the
\* globals of the function (the namespace its source was executed in), then
\* the built-ins
Resolves(ns, n) == n \in Params \/ n \in DOMAIN ns \/ n \in Builtins

Bool(b) == IF b THEN True ELSE <<"bool", "False">>

\* one statement of the body, run in state r
RunStatement(r, stmt, args) ==
    CASE r.done -> r
      [] stmt[1] = "read" ->
           IF Resolves(r.ns, stmt[2]) THEN r
           ELSE [r EXCEPT !.raised = "NameError", !.done = TRUE]
      [] stmt[1] = "probe" ->
           [r EXCEPT !.ret = Bool(stmt[2] \in DOMAIN r.ns)]
      [] stmt[1] = "bind" ->
           [r EXCEPT !.ns = With(r.ns, stmt[2], Int1)]
      [] stmt[1] = "mut" ->
           IF args = <<>>
           THEN [r EXCEPT !.raised = "IndexError", !.done = TRUE]
           ELSE IF args[1][1] # "list"
           THEN [r EXCEPT !.raised = "TypeError", !.done = TRUE]
           ELSE [r EXCEPT !.mutated = TRUE]
      [] stmt[1] = "ret" ->
           [r EXCEPT !.ret = <<"bool", stmt[2]>>, !.done = TRUE]
      [] OTHER -> r

RECURSIVE RunBody(_, _, _, _)
RunBody(r, body, i, args) ==
    IF i > Len(body) THEN r
    ELSE RunBody(RunStatement(r, body[i], args), body, i + 1, args)

\* __h5s_function(__h5s_filename, *__h5s_args, **__h5s_kwargs): the function
\* runs with the globals it was defined with
CallFunction(function, ns, args) ==
    RunBody([ns |-> ns, raised |-> "none", ret |-> None,
             mutated |-> FALSE, done |-> FALSE],
            function.body, 1, args)

\* mutant of custom_call: the file name is not passed
custom_call_without_filename(f, args, kwargs) ==
    LET r == CallFunction(f.function, f.ns, args)
    IN  [err |-> r.raised,
         result |-> IF r.raised = "none" THEN r.ret ELSE None,
         calls |-> << [args |-> args, kwargs |-> kwargs] >>,
         ns |-> r.ns,
         mutated |-> r.mutated]

\* SavedFunction.custom_call(*args, **kwargs) on invocable f
custom_call(f, args, kwargs) ==
    LET r == CallFunction(f.function, f.ns, args)
    IN  [err |-> r.raised,
         result |-> IF r.raised = "none" THEN r.ret ELSE None,
         calls |-> << [args |-> <<f.h5_filename>> \o args, kwargs |-> kwargs] >>,
         ns |-> r.ns,
         mutated |-> r.mutated]

\* mutant of call: the caller's positional arguments follow the stored ones
call_appending(f, args, kwargs) ==
    custom_call(f, f.function_args \o args, Update(f.function_kwargs, kwargs))

\* SavedFunction.__call__(*args, **kwargs) on invocable f
call(f, args, kwargs) ==
    IF args # <<>>
    THEN [err |-> "TypeError", result |-> None, calls |-> <<>>,
          ns |-> f.ns, mutated |-> FALSE]
    ELSE custom_call(f, f.function_args, Update(f.function_kwargs, kwargs))

-----------------------------------------------------------------------------
(* attached_function / attach_function.  An optional argument is <<>> when   *)
(* it is None and <<v>> when it is v.                                        *)

Request(function, name, docstring, groupname, args, kwargs, filename) ==
    [function |-> function, name |-> name, docstring |-> docstring,
     groupname |-> groupname, args |-> args, kwargs |-> kwargs,
     filename |-> filename]

\* name of the dataset: self.name, or the function's name
SlotName(req) == IF req.name = <<>> THEN req.function.name ELSE req.name[1]

FunctionDocstring(req) ==
    (IF req.docstring # <<>>
     THEN <<"\n----- DATA DOCSTRING -----\n", req.docstring[1]>> ELSE <<>>)
    \o (IF req.function.doc # <<>>
        THEN <<"\n----- FUNCTION DOCSTRING -----\n", req.function.doc[1]>> ELSE <<>>)

ArgsOf(req) == IF req.args = <<>> THEN <<>> ELSE req.args[1]
KwargsOf(req) == IF req.kwargs = <<>> THEN <<>> ELSE req.kwargs[1]

\* mutant of CheckLiteral: the result of literal_eval is not compared
CheckLiteralParseOnly(x) == LiteralEval(Repr(x)).err

\* repr, then literal_eval and comparison: the exception raised, or "none"
CheckLiteral(x) ==
    LET e == LiteralEval(Repr(x))
    IN  IF e.err # "none" THEN e.err
        ELSE IF e.val # x THEN "ValueError" ELSE "none"

\* mutant of LiteralCheck: the keyword arguments are not checked
LiteralCheckArgsOnly(req) == CheckLiteral(ArgsOf(req))

\* the two checks, the argument list first
LiteralCheck(req) ==
    IF CheckLiteral(ArgsOf(req)) # "none" THEN CheckLiteral(ArgsOf(req))
    ELSE CheckLiteral(KwargsOf(req))

\* the dataset and the attributes written for req
FunctionDataset(req) ==
    [payload |-> Normalize(req.function.lines),
     attrs |-> ("function_name" :> req.function.name)
               @@ ("function_docstring" :> FunctionDocstring(req))
               @@ ("function_signature" :> <<req.function.name, Signature>>)
               @@ ("function_args" :> Repr(ArgsOf(req)))
               @@ ("function_kwargs" :> Repr(KwargsOf(req)))
               @@ ("__h5scripting_function" :> TRUE)]

\* mutant of DeleteIfPresent: nothing is deleted
LeaveInPlace(slots, name) == slots

\* try: del group[name] / except KeyError: pass
DeleteIfPresent(slots, name) == Without(slots, name)

\* group.create_dataset(name, ...): h5py refuses a name already in use
CreateDataset(slots, name, dataset) ==
    IF name \in DOMAIN slots
    THEN [err |-> "ValueError", slots |-> slots]
    ELSE [err |-> "none", slots |-> With(slots, name, dataset)]

\* the with-block of attached_function.__call__, up to the last attribute
WriteFunction(st, req) ==
    LET f == OpenAppend(st, req.filename)
        groups == RequireGroup(f.groups, req.groupname)
        group == groups[req.groupname]
        c == CreateDataset(DeleteIfPresent(group.slots, SlotName(req)),
                           SlotName(req), FunctionDataset(req))
    IN  [err |-> c.err,
         deleted |-> SlotName(req) \in DOMAIN group.slots,
         store |-> [st EXCEPT ![Abspath(req.filename)] =
                       [f EXCEPT !.groups =
                           With(groups, req.groupname,
                                [group EXCEPT !.slots = c.slots])]]]

Idle ==
    [op |-> "none", filename |-> <<>>, groupname |-> "", name |-> "",
     req |-> <<>>, args |-> <<>>, kwargs |-> <<>>, err |-> "none",
     deleted |-> FALSE, calls |-> <<>>, result |-> None]

\* attached_function(filename, ...)(function), attach_function(function, ...)
Attach(req) ==
    /\ nwrites < MaxWrites
    /\ LET chk == LiteralCheck(req)
           w == WriteFunction(store, req)
           b == Build(SlotAt(w.store, req.filename, req.groupname, SlotName(req)),
                      req.filename)
           op == [Idle EXCEPT !.op = "attach", !.filename = req.filename,
                              !.groupname = req.groupname, !.name = SlotName(req),
                              !.req = <<req>>]
       IN  IF chk # "none"
           THEN /\ last' = [op EXCEPT !.err = chk]
                /\ UNCHANGED <<store, sf, scope, nwrites>>
           ELSE IF w.err # "none"
           THEN /\ store' = w.store
                /\ nwrites' = nwrites + 1
                /\ last' = [op EXCEPT !.err = w.err, !.deleted = w.deleted]
                /\ UNCHANGED <<sf, scope>>
           ELSE /\ store' = w.store
                /\ nwrites' = nwrites + 1
                /\ sf' = IF b.err = "none" THEN b.sf ELSE sf
                /\ last' = [op EXCEPT !.err = b.err, !.deleted = w.deleted]
                /\ UNCHANGED scope

-----------------------------------------------------------------------------
(* add_data / get_data *)

Array(k) == << << <<"ndarray", k>> >> >>

\* the datasets of add_data's loop
DataSlots(data) ==
    [k \in DOMAIN data |->
        [payload |-> data[k], attrs |-> ("__h5scripting_data" :> TRUE)]]

\* add_data(filename, groupname, data, docstring)
AddData(filename, groupname, data, docstring) ==
    /\ nwrites < MaxWrites
    /\ LET f == OpenAppend(store, filename)
           groups == RequireGroup(Without(f.groups, groupname), groupname)
           group == [attrs |-> IF docstring # <<>>
                               THEN ("group_docstring" :> docstring[1])
                               ELSE groups[groupname].attrs,
                     slots |-> DataSlots(data)]
       IN  /\ store' = [store EXCEPT ![Abspath(filename)] =
                           [f EXCEPT !.groups = With(groups, groupname, group)]]
           /\ nwrites' = nwrites + 1
           /\ last' = [Idle EXCEPT !.op = "add_data", !.filename = filename,
                                   !.groupname = groupname]
           /\ UNCHANGED <<sf, scope>>

\* get_data(filename, groupname)
GetData(filename, groupname) ==
    /\ LET op == [Idle EXCEPT !.op = "get_data", !.filename = filename,
                              !.groupname = groupname]
           slots == store[Abspath(filename)].groups[groupname].slots
       IN  last' =
             IF ~store[Abspath(filename)].exists THEN [op EXCEPT !.err = "IOError"]
             ELSE IF ~HasGroup(store, filename, groupname)
             THEN [op EXCEPT !.err = "KeyError"]
             ELSE [op EXCEPT !.result =
                      [k \in {x \in DOMAIN slots : IsData(slots[x])} |->
                          slots[k].payload]]
    /\ UNCHANGED <<store, sf, scope, nwrites>>

-----------------------------------------------------------------------------
(* get_saved_function / get_all_saved_functions *)

SlotNames == {"plot_func", "g", "x"}

\* the order in which an h5py group lists its members: by name
KeyOrder == <<"g", "plot_func", "x">>

\* mutant of Lookup: the marker is not looked at
LookupUnchecked(st, filename, name, groupname) ==
    CASE ~st[Abspath(filename)].exists -> [err |-> "IOError", sf |-> NoSF]
      [] ~HasGroup(st, filename, groupname) -> [err |-> "KeyError", sf |-> NoSF]
      [] ~HasSlot(st, filename, groupname, name) -> [err |-> "KeyError", sf |-> NoSF]
      [] OTHER -> Build(SlotAt(st, filename, groupname, name), filename)

\* the with-block of get_saved_function: the exception raised, or the
\* SavedFunction built
Lookup(st, filename, name, groupname) ==
    CASE ~st[Abspath(filename)].exists -> [err |-> "IOError", sf |-> NoSF]
      [] ~HasGroup(st, filename, groupname) -> [err |-> "KeyError", sf |-> NoSF]
      [] ~HasSlot(st, filename, groupname, name) -> [err |-> "KeyError", sf |-> NoSF]
      [] ~IsFunction(SlotAt(st, filename, groupname, name)) ->
           [err |-> "ValueError", sf |-> NoSF]
      [] OTHER -> Build(SlotAt(st, filename, groupname, name), filename)

\* get_saved_function(filename, name, groupname)
GetSavedFunction(filename, name, groupname) ==
    /\ LET r == Lookup(store, filename, name, groupname)
       IN  /\ sf' = IF r.err = "none" THEN r.sf ELSE sf
           /\ last' = [Idle EXCEPT !.op = "get_saved_function",
                                   !.filename = filename, !.groupname = groupname,
                                   !.name = name, !.err = r.err]
    /\ UNCHANGED <<store, scope, nwrites>>

\* the with-block of get_all_saved_functions
LookupAll(st, filename, groupname) ==
    IF ~st[Abspath(filename)].exists THEN [err |-> "IOError", result |-> <<>>]
    ELSE IF ~HasGroup(st, filename, groupname)
    THEN [err |-> "KeyError", result |-> <<>>]
    ELSE LET slots == st[Abspath(filename)].groups[groupname].slots
             InGroup(k) == k \in DOMAIN slots /\ IsFunction(slots[k])
             keys == SelectSeq(KeyOrder, InGroup)
             built == [i \in DOMAIN keys |-> Build(slots[keys[i]], filename)]
             bad == {i \in DOMAIN keys : built[i].err # "none"}
         IN  IF bad # {} THEN [err |-> built[SetMin(bad)].err, result |-> <<>>]
             ELSE [err |-> "none", result |-> [i \in DOMAIN keys |-> built[i].sf]]

\* get_all_saved_functions(filename, groupname)
GetAllSavedFunctions(filename, groupname) ==
    /\ LET r == LookupAll(store, filename, groupname)
       IN  last' = [Idle EXCEPT !.op = "get_all_saved_functions",
                                !.filename = filename, !.groupname = groupname,
                                !.err = r.err, !.result = r.result]
    /\ UNCHANGED <<store, sf, scope, nwrites>>

-----------------------------------------------------------------------------
(* Calling the SavedFunction the caller holds *)

\* the stored argument list after the function changed its first element in place
Mutated(function_args) == [function_args EXCEPT ![1] = List1]

\* sf(*args, **kwargs)
Call(args, kwargs) ==
    /\ sf.built
    /\ LET o == call(sf, args, kwargs)
       IN  /\ sf' = [sf EXCEPT !.ns = o.ns,
                               !.function_args =
                                   IF o.mutated THEN Mutated(@) ELSE @]
           /\ last' = [Idle EXCEPT !.op = "__call__", !.args = args,
                                   !.kwargs = kwargs, !.err = o.err,
                                   !.calls = o.calls, !.result = o.result]
    /\ UNCHANGED <<store, scope, nwrites>>

\* sf.custom_call(*args, **kwargs): the arguments are the caller's own objects
CustomCall(args, kwargs) ==
    /\ sf.built
    /\ LET o == custom_call(sf, args, kwargs)
       IN  /\ sf' = [sf EXCEPT !.ns = o.ns]
           /\ last' = [Idle EXCEPT !.op = "custom_call", !.args = args,
                                   !.kwargs = kwargs, !.err = o.err,
                                   !.calls = o.calls, !.result = o.result]
    /\ UNCHANGED <<store, scope, nwrites>>

\* the calling module binds a global name of its own
CallerDefines(n) ==
    /\ n \notin scope
    /\ scope' = scope \cup {n}
    /\ last' = [Idle EXCEPT !.op = "define", !.name = n]
    /\ UNCHANGED <<store, sf, nwrites>>

-----------------------------------------------------------------------------
(* Inputs *)

ScopeNames == {"x"}

DataChoices == {("x" :> Array("x")), ("g" :> Array("g"))}
DocChoices == {<<>>, <<"about the data">>}

\* literal argument lists and keyword mappings, and some that are not
GoodArgs == {<<>>, << <<EmptyList, Int1>> >>}
BadArgs == {<< <<Obj>> >>, << <<Fake1>> >>}
GoodKwargs == {<<>>, << ("xlabel" :> StrA) @@ ("title" :> StrA) >>}
BadKwargs == {<< ("xlabel" :> NaN) >>}

TheFile == <<"test.h5">>

\* every function under its own name in the default group, without arguments
PlainCaptures ==
    {Request(f, <<>>, <<>>, "saved_functions", <<>>, <<>>, TheFile) : f \in Functions}

\* the example's function with every choice of arguments
ArgCaptures ==
    {Request(PlotFunc, <<>>, <<"about the plot">>, "saved_functions", a, k, TheFile) :
        a \in GoodArgs \cup BadArgs, k \in GoodKwargs \cup BadKwargs}

\* the function that changes its first argument, with a list to change
ListCaptures ==
    {Request(Stateful, <<>>, <<>>, "saved_functions", << <<EmptyList, Int1>> >>,
             <<>>, TheFile)}

\* the example's function under another name or in another group
PlaceCaptures ==
    {Request(PlotFunc, n, <<>>, g, <<>>, <<>>, TheFile) :
        n \in {<<>>, <<"g">>}, g \in Groups}

Captures == PlainCaptures \cup ArgCaptures \cup ListCaptures \cup PlaceCaptures

CallArgs == {<<>>, <<StrB>>}
CallKwargs == {<<>>, ("xlabel" :> StrB)}

-----------------------------------------------------------------------------
(* The specification *)

Init ==
    /\ store = [p \in AbsFiles |-> NoFile]
    /\ sf = NoSF
    /\ scope = {}
    /\ nwrites = 0
    /\ last = Idle

Next ==
    \/ \E req \in Captures : Attach(req)
    \/ \E g \in Groups, d \in DataChoices, doc \in DocChoices :
          AddData(TheFile, g, d, doc)
    \/ \E g \in Groups : GetData(TheFile, g)
    \/ \E n \in SlotNames, g \in Groups : GetSavedFunction(TheFile, n, g)
    \/ \E g \in Groups : GetAllSavedFunctions(TheFile, g)
    \/ \E a \in CallArgs, k \in CallKwargs : Call(a, k)
    \/ \E a \in CallArgs, k \in CallKwargs : CustomCall(a, k)
    \/ \E n \in ScopeNames : CallerDefines(n)

Spec == Init /\ [][Next]_vars

-----------------------------------------------------------------------------
(* Source normalisation on its own: the text inspect.getsource returns for   *)
(* a function, and the text attached_function.__call__ stores for it.        *)

MaxLines == 4
MaxIndent == 2

\* another decorator above the def line: @other
AT_OTHER == <<"at", "other">>

Decorators == {AT, AT_OTHER}

\* n spaces
Indent(n) == [i \in 1..n |-> SP]

\* a line of the body of a function whose def line stands at column base:
\* an empty line, or a statement further to the right
BodyLines(base) ==
    {<<>>} \cup {Indent(n) \o << <<"ret", "True">> >> : n \in (base + 1)..MaxIndent}

\* function_source.splitlines(): d decorator lines and the def line at column
\* base, then b lines of body
SourceLines(base, d, b) ==
    {[i \in 1..d |-> Indent(base) \o <<ds[i]>>]
        \o <<Indent(base) \o <<DefLine("g")>>>> \o body :
        ds \in [1..d -> Decorators], body \in [1..b -> BodyLines(base)]}

Sources ==
    UNION {SourceLines(base, d, b) :
             base \in 0..(MaxIndent - 1), d \in 0..(MaxLines - 1),
             b \in 0..(MaxLines - 1)} \ {<<>>}

GetSourceInit ==
    /\ store = [p \in AbsFiles |-> NoFile]
    /\ sf = NoSF
    /\ scope = {}
    /\ nwrites = 0
    /\ \E function_lines \in {t \in Sources : Len(t) <= MaxLines} :
          last = [op |-> "getsource", function_lines |-> function_lines,
                  function_source |-> <<>>]

\* attached_function.__call__, from splitlines to the joined text
NormalizeSource ==
    /\ last.op = "getsource"
    /\ last' = [last EXCEPT !.op = "normalize",
                            !.function_source = Normalize(last.function_lines)]
    /\ UNCHANGED <<store, sf, scope, nwrites>>

NormalizeNext == NormalizeSource

NormalizeSpec == GetSourceInit /\ [][NormalizeNext]_vars

-----------------------------------------------------------------------------
(* Properties *)

\* the record a capture request asks to store
RecordOf(req) ==
    [function_name |-> req.function.name,
     source |-> Normalize(req.function.lines),
     docstring |-> FunctionDocstring(req),
     signature |-> <<req.function.name, Signature>>,
     default_args |-> ArgsOf(req),
     default_kwargs |-> KwargsOf(req)]

\* the record a SavedFunction carries
RecordIn(f) ==
    [function_name |-> f.function_name,
     source |-> f.function_source,
     docstring |-> f.function_docstring,
     signature |-> f.function_signature,
     default_args |-> f.function_args,
     default_kwargs |-> f.function_kwargs]

\* the step just taken was operation op
Did(op) == last.op = op

\* C1: a save to a slot that already held something leaves, under that slot,
\* one function dataset whose payload and attributes are those of this save
\* and nothing else, and loading it gives this save's record in every field.
C1_SlotReplaced ==
    (Did("attach") /\ last.deleted) =>
        LET req == last.req[1]
            r == Lookup(store, last.filename, last.name, last.groupname)
        IN  /\ last.err = "none"
            /\ HasSlot(store, last.filename, last.groupname, last.name)
            /\ SlotAt(store, last.filename, last.groupname, last.name)
                   = FunctionDataset(req)
            /\ r.err = "none"
            /\ RecordIn(r.sf) = RecordOf(req)

\* a second save has replaced a slot
C1_Witness ==
    /\ Did("attach") /\ last.deleted /\ nwrites = 2
    /\ last.req[1].function = Stateful

\* C5: after a capture that was accepted, loading the slot gives a record
\* whose six fields equal what was captured; the argument list and keyword
\* mapping come back through repr and literal_eval as they went in.
C5_RoundTrip ==
    (Did("attach") /\ last.err = "none") =>
        LET req == last.req[1]
            r == Lookup(store, last.filename, last.name, last.groupname)
        IN  /\ r.err = "none"
            /\ RecordIn(r.sf) = RecordOf(req)
            /\ RecordIn(sf) = RecordOf(req)
            /\ LiteralEval(Repr(ArgsOf(req))).val = ArgsOf(req)
            /\ LiteralEval(Repr(KwargsOf(req))).val = KwargsOf(req)

\* a capture with a nested list and two keywords was accepted
C5_Witness ==
    /\ Did("attach") /\ last.err = "none"
    /\ ArgsOf(last.req[1]) = <<EmptyList, Int1>>
    /\ DOMAIN KwargsOf(last.req[1]) = {"xlabel", "title"}


\* a list or mapping holding a value that repr and literal_eval do not give back
NotLiteral(x) ==
    \E i \in DOMAIN x :
        LET e == EvalToken(ReprValue(x[i]))
        IN  e.err # "none" \/ e.val # x[i]

\* what the literal check raises: its own ValueError, or literal_eval's
\* ValueError or SyntaxError
LiteralErrors == {"ValueError", "SyntaxError"}

\* C6: a capture whose argument list or keyword mapping holds a value that
\* does not come back through repr and literal_eval fails with the literal
\* check's error, and the files are as they were: nothing is created, and
\* whatever was under the target slot is still there.
C6_RejectedBeforeIO ==
    [][(last'.op = "attach"
          /\ (NotLiteral(ArgsOf(last'.req[1])) \/ NotLiteral(KwargsOf(last'.req[1]))))
       => /\ last'.err \in LiteralErrors
          /\ store' = store
          /\ sf' = sf]_vars

\* a capture was rejected while a function was stored under its target slot
C6_Witness ==
    /\ Did("attach") /\ last.err \in LiteralErrors
    /\ NotLiteral(ArgsOf(last.req[1])) \/ NotLiteral(KwargsOf(last.req[1]))
    /\ HasSlot(store, last.filename, last.groupname, last.name)
    /\ IsFunction(SlotAt(store, last.filename, last.groupname, last.name))

\* C7: in an existing file, get_saved_function returns only for a slot that
\* exists in an existing group and carries a true function marker; it raises
\* KeyError when the group or the slot is absent and ValueError when the slot
\* lacks the marker; when it raises, the caller gets no SavedFunction, and the
\* files never change.
C7_Load ==
    [][last'.op = "get_saved_function" =>
        LET fn == last'.filename
            g == last'.groupname
            n == last'.name
            present == HasSlot(store, fn, g, n)
        IN  /\ store' = store
            /\ last'.err = "none" =>
                  /\ present /\ IsFunction(SlotAt(store, fn, g, n))
                  /\ sf'.built
            /\ (store[Abspath(fn)].exists /\ ~present) => last'.err = "KeyError"
            /\ (present /\ ~IsFunction(SlotAt(store, fn, g, n))) =>
                  last'.err = "ValueError"
            /\ last'.err # "none" => sf' = sf]_vars

\* a plain data slot was asked for as a function
C7_Witness ==
    /\ Did("get_saved_function") /\ last.err = "ValueError"
    /\ HasSlot(store, last.filename, last.groupname, last.name)
    /\ IsData(SlotAt(store, last.filename, last.groupname, last.name))

\* a function is stored under slot s of group g
Stored(st, g, s) ==
    HasSlot(st, TheFile, g, s) /\ IsFunction(SlotAt(st, TheFile, g, s))

\* the step leaves slot s of group g as it was
Kept(g, s) ==
    /\ HasSlot(store', TheFile, g, s)
    /\ SlotAt(store', TheFile, g, s) = SlotAt(store, TheFile, g, s)

\* C10 as stated: a stored function is deleted or changed only by a save to
\* its own slot.
C10_OnlyResave ==
    [][\A g \in Groups, s \in SlotNames :
          (Stored(store, g, s) /\ ~Kept(g, s)) =>
              last'.op = "attach" /\ last'.groupname = g /\ last'.name = s]_vars

\* C10, amended: a stored function is deleted or changed only by a save to
\* its own slot or by add_data on its group; every other step leaves it
\* under its slot with the same content.
C10_OnlyResaveOrAddData ==
    [][\A g \in Groups, s \in SlotNames :
          (Stored(store, g, s) /\ ~Kept(g, s)) =>
              \/ last'.op = "attach" /\ last'.groupname = g /\ last'.name = s
              \/ last'.op = "add_data" /\ last'.groupname = g]_vars

\* add_data has written one group while a function is stored in the other
C10_Witness ==
    /\ Did("add_data")
    /\ \E g \in Groups \ {last.groupname}, s \in SlotNames : Stored(store, g, s)


Invoked == Did("__call__") \/ Did("custom_call")

\* C2: when the SavedFunction is called with keyword arguments K, the function
\* receives the stored keyword arguments overlaid by K: every key of K with
\* K's value, every other stored key with its stored value, and no other key.
C2_KeywordOverlay ==
    (Did("__call__") /\ last.args = <<>>) =>
        /\ Len(last.calls) = 1
        /\ LET kw == last.calls[1].kwargs
               K == last.kwargs
               D == sf.function_kwargs
           IN  /\ DOMAIN kw = DOMAIN D \cup DOMAIN K
               /\ \A k \in DOMAIN K : kw[k] = K[k]
               /\ \A k \in DOMAIN D \ DOMAIN K : kw[k] = D[k]

\* a call overrode the stored xlabel and kept the stored title
C2_Witness ==
    /\ Did("__call__") /\ last.calls # <<>>
    /\ DOMAIN sf.function_kwargs = {"xlabel", "title"}
    /\ sf.function_kwargs["xlabel"] = StrA
    /\ last.kwargs = ("xlabel" :> StrB)
    /\ last.calls[1].kwargs = ("xlabel" :> StrB) @@ ("title" :> StrA)

\* C3 as stated: whichever way the SavedFunction is invoked, positional
\* arguments of the caller make the invocation fail with TypeError before the
\* function runs.
C3_NoPositionalOverride ==
    (Invoked /\ last.args # <<>>) =>
        last.err = "TypeError" /\ last.calls = <<>>

\* C3, amended: calling the SavedFunction with positional arguments fails with
\* TypeError and the function does not run, however many arguments are stored;
\* custom_call is the way to pass positional arguments, and the function then
\* receives the file name followed by exactly the caller's arguments.
C3_CallRejectsPositional ==
    /\ (Did("__call__") /\ last.args # <<>>) =>
           last.err = "TypeError" /\ last.calls = <<>>
    /\ Did("custom_call") =>
           /\ Len(last.calls) = 1
           /\ last.calls[1].args = <<sf.h5_filename>> \o last.args
           /\ last.calls[1].kwargs = last.kwargs

\* a call with a positional argument was refused by a SavedFunction that
\* stores two
C3_Witness ==
    /\ Did("__call__") /\ last.args # <<>> /\ last.err = "TypeError"
    /\ Len(sf.function_args) = 2

ReadsForeign(body, i) ==
    body[i][1] = "read" /\ body[i][2] \notin Params \cup Builtins

\* the statements before statement i neither raise, nor return, nor bind
Reached(body, i, ns) ==
    \A j \in 1..(i - 1) :
        \/ body[j][1] = "probe"
        \/ body[j][1] = "read" /\ body[j][2] \in Params \cup Builtins \cup DOMAIN ns

C9_NothingSurvives ==
    [][last'.op \in {"__call__", "custom_call"} =>
        /\ sf'.ns = sf.ns
        /\ sf'.function_args = sf.function_args
        /\ sf'.function_kwargs = sf.function_kwargs]_vars

\* the least number of leading spaces of the lines
MinIndent(lines) ==
    CHOOSE n \in 0..MaxIndent :
        /\ \A i \in DOMAIN lines : LeadingSpaces(lines[i]) >= n
        /\ \E i \in DOMAIN lines : LeadingSpaces(lines[i]) = n

\* the line is the capturing annotation, @attached_function(...)
IsCapturing(line) == line # <<>> /\ line[1] = AT

\* the lines, each without its first n tokens
Dedent(lines, n) == [i \in DOMAIN lines |-> Cut(lines[i], n)]

\* C11: the stored text is the extracted lines in their order, each with the
\* least number of leading spaces of all lines removed, without the first line
\* if and only if that line, so shortened, is the capturing annotation; a
\* first line that is anything else is kept.
C11_Normalize ==
    last.op = "normalize" =>
        LET lines == last.function_lines
            n == MinIndent(lines)
        IN  last.function_source =
                IF IsCapturing(Cut(lines[1], n))
                THEN Dedent(Tail(lines), n)
                ELSE Dedent(lines, n)

\* C11, what the code does: as above, but the first line is dropped whenever
\* it, so shortened, begins with "@", whichever decorator it names.
C11_NormalizeAnyDecorator ==
    last.op = "normalize" =>
        LET lines == last.function_lines
            n == MinIndent(lines)
            first == Cut(lines[1], n)
        IN  last.function_source =
                IF first # <<>> /\ first[1] \in Decorators
                THEN Dedent(Tail(lines), n)
                ELSE Dedent(lines, n)

\* a text that begins with another decorator has been normalised
C11_Witness ==
    /\ last.op = "normalize"
    /\ last.function_lines[1] = <<AT_OTHER>>
    /\ last.function_source[1] # <<AT_OTHER>>

=============================================================================
